---- MODULE Spec2Model ----
(***************************************************************************)
(* Model of freesound-rs: the SearchQueryBuilder (models/search.rs), the   *)
(* serde decoding of Sound and SearchResponse (models/sound.rs,            *)
(* models/search.rs) and the three client operations test_api_key, search  *)
(* and get_sound (client.rs).                                              *)
(*                                                                         *)
(* Rust String values are TLA+ strings; Option<T> is a sequence of length  *)
(* 0 (None) or 1 (Some); Vec<T> is a sequence; a (String, String) pair is  *)
(* a 2-tuple.                                                              *)
(***************************************************************************)
EXTENDS Integers, Sequences, FiniteSets, TLC

VARIABLES
    builder,    \* the SearchQueryBuilder value being chained
    called,     \* for each setter, Option: the argument of its latest call
    ncalls,     \* number of setter calls made so far
    ret,        \* Option: the pair list returned by build() when it was the last call
    nbuilds,    \* number of build() calls since the last setter call
    api_key,    \* FreesoundClient.api_key
    base_url,   \* FreesoundClient.base_url
    op,         \* the client operation in progress
    pc,         \* its position: idle, send_await, text_await, json_await, done
    args,       \* its arguments
    sent,       \* the requests it has put on the wire
    status,     \* Option: status of the response received
    body,       \* Option: the response body once it has been read
    outcome,    \* Option: the Result it returned
    payload,    \* a raw payload handed to the decoder
    decoded     \* Option: the decoder's result for payload

vars == <<builder, called, ncalls, ret, nbuilds, api_key, base_url, op, pc, args, sent,
          status, body, outcome, payload, decoded>>

builderVars == <<builder, called, ncalls, ret, nbuilds>>
clientVars == <<api_key, base_url, op, pc, args, sent, status, body, outcome>>
decodeVars == <<payload, decoded>>

\* ------------------------------------------------------------------------
\* Bounds

MaxCalls == 3
MaxBuilds == 2
MaxList == 2
MaxKeys == 1
MaxResults == 2

\* ------------------------------------------------------------------------
\* Option<T>

None == <<>>
Some(v) == <<v>>

\* ------------------------------------------------------------------------
\* Input domains

QueryStrings == {"piano", ""}
FilterStrings == {"tag:guitar", "duration:[1 TO 5]"}
PageValues == {1, -1}
PageSizeValues == {15, 0}
Names == {"id", "name"}

RECURSIVE ListsUpTo(_, _)
ListsUpTo(S, n) ==
    IF n = 0 THEN {<<>>}
    ELSE LET shorter == ListsUpTo(S, n - 1)
         IN  shorter \cup {Append(l, x) : l \in {s \in shorter : Len(s) = n - 1}, x \in S}

NameLists == ListsUpTo(Names, MaxList) \cup {<<"id", "name", "id">>}
DescriptorLists == ListsUpTo({"rhythm.bpm"}, MaxList)

\* ------------------------------------------------------------------------
\* std: i32::to_string, [String]::join

Digit(d) ==
    CASE d = 0 -> "0" [] d = 1 -> "1" [] d = 2 -> "2" [] d = 3 -> "3"
      [] d = 4 -> "4" [] d = 5 -> "5" [] d = 6 -> "6" [] d = 7 -> "7"
      [] d = 8 -> "8" [] d = 9 -> "9"

RECURSIVE NatToString(_)
NatToString(n) ==
    IF n < 10 THEN Digit(n) ELSE NatToString(n \div 10) \o Digit(n % 10)

i32_to_string(n) == IF n < 0 THEN "-" \o NatToString(0 - n) ELSE NatToString(n)

RECURSIVE join_rest(_, _, _)
join_rest(acc, rest, sep) ==
    IF rest = <<>> THEN acc
    ELSE join_rest(acc \o sep \o Head(rest), Tail(rest), sep)

\* bug: every element is followed by the separator
join_trailing(list, sep) ==
    IF list = <<>> THEN "" ELSE join_rest(Head(list), Tail(list), sep) \o sep

join(list, sep) ==
    IF list = <<>> THEN "" ELSE join_rest(Head(list), Tail(list), sep)

\* ------------------------------------------------------------------------
\* models/search.rs: SortOption

SortOption ==
    {"Score", "DurationDesc", "DurationAsc", "CreatedDesc", "CreatedAsc",
     "DownloadsDesc", "DownloadsAsc", "RatingDesc", "RatingAsc"}

\* bug: the two duration arms are swapped
SortOption_to_string_swapped(self) ==
    CASE self = "Score" -> "score"
      [] self = "DurationDesc" -> "duration_asc"
      [] self = "DurationAsc" -> "duration_desc"
      [] self = "CreatedDesc" -> "created_desc"
      [] self = "CreatedAsc" -> "created_asc"
      [] self = "DownloadsDesc" -> "downloads_desc"
      [] self = "DownloadsAsc" -> "downloads_asc"
      [] self = "RatingDesc" -> "rating_desc"
      [] self = "RatingAsc" -> "rating_asc"

SortOption_to_string(self) ==
    CASE self = "Score" -> "score"
      [] self = "DurationDesc" -> "duration_desc"
      [] self = "DurationAsc" -> "duration_asc"
      [] self = "CreatedDesc" -> "created_desc"
      [] self = "CreatedAsc" -> "created_asc"
      [] self = "DownloadsDesc" -> "downloads_desc"
      [] self = "DownloadsAsc" -> "downloads_asc"
      [] self = "RatingDesc" -> "rating_desc"
      [] self = "RatingAsc" -> "rating_asc"

\* ------------------------------------------------------------------------
\* models/search.rs: SearchQueryBuilder

SearchQueryBuilder_new ==
    [query |-> None, filter |-> None, sort |-> None, group_by_pack |-> None,
     page |-> None, page_size |-> None, fields |-> None, descriptors |-> None,
     normalized |-> None]

build_query(self) ==
    IF self.query # None THEN << <<"query", self.query[1]>> >> ELSE <<>>

build_filter(self) ==
    IF self.filter # None THEN << <<"filter", self.filter[1]>> >> ELSE <<>>

build_sort(self) ==
    IF self.sort # None
    THEN << <<"sort", SortOption_to_string(self.sort[1])>> >> ELSE <<>>

build_group_by_pack(self) ==
    IF self.group_by_pack # None
    THEN << <<"group_by_pack", IF self.group_by_pack[1] THEN "1" ELSE "0">> >>
    ELSE <<>>

build_page(self) ==
    IF self.page # None THEN << <<"page", i32_to_string(self.page[1])>> >> ELSE <<>>

build_page_size(self) ==
    IF self.page_size # None
    THEN << <<"page_size", i32_to_string(self.page_size[1])>> >> ELSE <<>>

build_fields(self) ==
    IF self.fields # None
    THEN << <<"fields", join(self.fields[1], ",")>> >> ELSE <<>>

build_descriptors(self) ==
    IF self.descriptors # None
    THEN << <<"descriptors", join(self.descriptors[1], ",")>> >> ELSE <<>>

\* bug: the flag is rendered with bool::to_string
build_normalized_as_word(self) ==
    IF self.normalized # None
    THEN << <<"normalized", IF self.normalized[1] THEN "true" ELSE "false">> >>
    ELSE <<>>

build_normalized(self) ==
    IF self.normalized # None
    THEN << <<"normalized", IF self.normalized[1] THEN "1" ELSE "0">> >>
    ELSE <<>>

\* bug: the filter block is placed before the query block
build_filter_first(self) ==
    build_filter(self) \o build_query(self) \o build_sort(self)
        \o build_group_by_pack(self) \o build_page(self) \o build_page_size(self)
        \o build_fields(self) \o build_descriptors(self) \o build_normalized(self)

\* params starts empty and each `if let Some` pushes at most one pair, in
\* source order.
build(self) ==
    build_query(self) \o build_filter(self) \o build_sort(self)
        \o build_group_by_pack(self) \o build_page(self) \o build_page_size(self)
        \o build_fields(self) \o build_descriptors(self) \o build_normalized(self)

\* bug: a parameter that is already set keeps its first value
Setter_keep_first(name, field, value) ==
    /\ ncalls < MaxCalls
    /\ builder' = IF builder[field] # None THEN builder
                  ELSE [builder EXCEPT ![field] = Some(value)]
    /\ called' = [called EXCEPT ![name] = Some(value)]
    /\ ncalls' = ncalls + 1
    /\ ret' = None
    /\ nbuilds' = 0

\* A setter consumes the builder and returns it with one field replaced.
Setter(name, field, value) ==
    /\ ncalls < MaxCalls
    /\ builder' = [builder EXCEPT ![field] = Some(value)]
    /\ called' = [called EXCEPT ![name] = Some(value)]
    /\ ncalls' = ncalls + 1
    /\ ret' = None
    /\ nbuilds' = 0

query == \E q \in QueryStrings : Setter("query", "query", q)
filter == \E f \in FilterStrings : Setter("filter", "filter", f)
sort == \E s \in SortOption : Setter("sort", "sort", s)
group_by_pack == \E g \in BOOLEAN : Setter("group_by_pack", "group_by_pack", g)
page == \E p \in PageValues : Setter("page", "page", p)
page_size == \E s \in PageSizeValues : Setter("page_size", "page_size", s)
fields == \E f \in NameLists : Setter("fields", "fields", f)
descriptors == \E d \in DescriptorLists : Setter("descriptors", "descriptors", d)
normalized == \E n \in BOOLEAN : Setter("normalized", "normalized", n)

\* bug: build() moves the query out of the builder (Option::take)
Build_take ==
    /\ nbuilds < MaxBuilds
    /\ ret' = Some(build(builder))
    /\ nbuilds' = nbuilds + 1
    /\ builder' = [builder EXCEPT !.query = None]
    /\ UNCHANGED <<called, ncalls>>

\* build(&self) reads the builder through a shared reference and returns a
\* fresh Vec.
Build ==
    /\ nbuilds < MaxBuilds
    /\ ret' = Some(build(builder))
    /\ nbuilds' = nbuilds + 1
    /\ UNCHANGED <<builder, called, ncalls>>

\* ------------------------------------------------------------------------
\* std: Result<T, E>

Ok(v) == [ok |-> TRUE, v |-> v]
Err(e) == [ok |-> FALSE, e |-> e]

\* ------------------------------------------------------------------------
\* JSON texts.  A text is either not well-formed JSON (Malformed) or the
\* JSON value it denotes.  A float literal is kept in half units so that
\* 1.5 is JFloat(3); an integer literal n read as f32 is 2n half units.

Malformed == [t |-> "malformed"]
JNull == [t |-> "null"]
JBool(b) == [t |-> "bool", b |-> b]
JInt(n) == [t |-> "int", n |-> n]
JFloat(h) == [t |-> "float", halves |-> h]
JStr(s) == [t |-> "str", s |-> s]
JArr(a) == [t |-> "arr", a |-> a]
JObj(o) == [t |-> "obj", o |-> o]

F32(h) == [halves |-> h]

\* serde_json::Value::get(&str): Some only on an object that has the key.
Value_get(json, key) ==
    IF json.t = "obj" /\ key \in DOMAIN json.o THEN Some(json.o[key]) ELSE None

\* ------------------------------------------------------------------------
\* models/sound.rs and models/search.rs: the structs that derive Deserialize

OptionTypes == {"OptString", "OptF32", "OptI32", "OptValue", "OptPreviews", "OptImages"}

\* A field of a derived struct: Rust name, JSON key, type, and whether the
\* field itself carries #[serde(default)].
Field(name, key, ty, dflt) == [name |-> name, key |-> key, ty |-> ty, dflt |-> dflt]

Previews ==
    << Field("preview_hq_mp3", "preview-hq-mp3", "String", FALSE),
       Field("preview_lq_mp3", "preview-lq-mp3", "String", FALSE),
       Field("preview_hq_ogg", "preview-hq-ogg", "String", FALSE),
       Field("preview_lq_ogg", "preview-lq-ogg", "String", FALSE) >>

Images ==
    << Field("waveform_l", "waveform_l", "String", FALSE),
       Field("waveform_m", "waveform_m", "String", FALSE),
       Field("spectral_l", "spectral_l", "String", FALSE),
       Field("spectral_m", "spectral_m", "String", FALSE) >>

Sound ==
    << Field("id", "id", "i32", FALSE),
       Field("url", "url", "String", TRUE),
       Field("name", "name", "String", FALSE),
       Field("tags", "tags", "VecString", TRUE),
       Field("description", "description", "String", TRUE),
       Field("geotag", "geotag", "OptString", FALSE),
       Field("created", "created", "String", TRUE),
       Field("license", "license", "String", FALSE),
       Field("sound_type", "type", "String", TRUE),
       Field("channels", "channels", "i32", TRUE),
       Field("filesize", "filesize", "i32", TRUE),
       Field("bitrate", "bitrate", "OptF32", FALSE),
       Field("bitdepth", "bitdepth", "OptI32", FALSE),
       Field("duration", "duration", "f32", TRUE),
       Field("samplerate", "samplerate", "f32", TRUE),
       Field("username", "username", "String", FALSE),
       Field("pack", "pack", "OptString", FALSE),
       Field("download", "download", "String", TRUE),
       Field("bookmark", "bookmark", "String", TRUE),
       Field("previews", "previews", "OptPreviews", TRUE),
       Field("images", "images", "OptImages", TRUE),
       Field("num_downloads", "num_downloads", "i32", TRUE),
       Field("avg_rating", "avg_rating", "f32", TRUE),
       Field("num_ratings", "num_ratings", "i32", TRUE),
       Field("rate", "rate", "String", TRUE),
       Field("comments", "comments", "String", TRUE),
       Field("num_comments", "num_comments", "i32", TRUE),
       Field("comment", "comment", "String", TRUE),
       Field("similar_sounds", "similar_sounds", "String", TRUE),
       Field("analysis", "analysis", "OptValue", FALSE),
       Field("analysis_stats", "analysis_stats", "String", TRUE),
       Field("analysis_frames", "analysis_frames", "String", TRUE) >>

\* impl Default for Sound
Sound_default ==
    [id |-> 0, url |-> "", name |-> "", tags |-> <<>>, description |-> "",
     geotag |-> None, created |-> "", license |-> "", sound_type |-> "",
     channels |-> 0, filesize |-> 0, bitrate |-> None, bitdepth |-> None,
     duration |-> F32(0), samplerate |-> F32(0), username |-> "", pack |-> None,
     download |-> "", bookmark |-> "", previews |-> None, images |-> None,
     num_downloads |-> 0, avg_rating |-> F32(0), num_ratings |-> 0, rate |-> "",
     comments |-> "", num_comments |-> 0, comment |-> "", similar_sounds |-> "",
     analysis |-> None, analysis_stats |-> "", analysis_frames |-> ""]

SearchResponse ==
    << Field("count", "count", "i32", FALSE),
       Field("next", "next", "OptString", FALSE),
       Field("results", "results", "VecSound", FALSE),
       Field("previous", "previous", "OptString", FALSE) >>

\* ------------------------------------------------------------------------
\* serde: what the derived Deserialize does with a JSON value

\* bug: a float literal is accepted and truncated
deserialize_i32_truncating(v) ==
    IF v.t = "int" THEN Ok(v.n)
    ELSE IF v.t = "float" THEN Ok(v.halves \div 2)
    ELSE Err("invalid type")

deserialize_i32(v) ==
    IF v.t = "int" THEN Ok(v.n) ELSE Err("invalid type")

deserialize_f32(v) ==
    IF v.t = "int" THEN Ok(F32(2 * v.n))
    ELSE IF v.t = "float" THEN Ok(F32(v.halves))
    ELSE Err("invalid type")

deserialize_String(v) ==
    IF v.t = "str" THEN Ok(v.s) ELSE Err("invalid type")

deserialize_VecString(v) ==
    IF v.t # "arr" THEN Err("invalid type")
    ELSE IF \E i \in 1..Len(v.a) : ~deserialize_String(v.a[i]).ok THEN Err("invalid type")
    ELSE Ok([i \in 1..Len(v.a) |-> v.a[i].s])

\* Option<T>: null is None, anything else must decode as T; inner is the
\* result of decoding v as T.
deserialize_Option(v, inner) ==
    IF v.t = "null" THEN Ok(None)
    ELSE IF inner.ok THEN Ok(Some(inner.v)) ELSE inner

\* Option<serde_json::Value>: every JSON value decodes.
deserialize_OptionValue(v) ==
    IF v.t = "null" THEN Ok(None) ELSE Ok(Some(v))

\* Default::default() of a field type.
Default_default(ty) ==
    CASE ty = "i32" -> 0
      [] ty = "f32" -> F32(0)
      [] ty = "String" -> ""
      [] ty = "VecString" -> <<>>
      [] ty \in OptionTypes -> None

\* bug: the container-level #[serde(default)] is not there
missing_in_map_no_container(f, cdefault, dvalue) ==
    IF f.dflt THEN Ok(Default_default(f.ty))
    ELSE IF f.ty \in OptionTypes THEN Ok(None)
    ELSE Err("missing field")

\* A key absent from a JSON object: the field's own default, else the
\* container's default value, else None for an Option, else an error.
missing_in_map(f, cdefault, dvalue) ==
    IF f.dflt THEN Ok(Default_default(f.ty))
    ELSE IF cdefault THEN Ok(dvalue[f.name])
    ELSE IF f.ty \in OptionTypes THEN Ok(None)
    ELSE Err("missing field")

\* An element absent from a JSON array.  Whether the container's default
\* applies here depends on the serde_derive release the crate is built with:
\* seq_default says which one this build has.
missing_in_seq(f, cdefault, dvalue, seq_default) ==
    IF f.dflt THEN Ok(Default_default(f.ty))
    ELSE IF cdefault /\ seq_default THEN Ok(dvalue[f.name])
    ELSE Err("invalid length")

RECURSIVE deserialize_struct(_, _, _, _, _)

Previews_deserialize(v) == deserialize_struct(Previews, FALSE, <<>>, v, FALSE)

Images_deserialize(v) == deserialize_struct(Images, FALSE, <<>>, v, FALSE)

\* #[derive(Deserialize)] #[serde(default)] struct Sound
Sound_deserialize(v, seq_default) ==
    deserialize_struct(Sound, TRUE, Sound_default, v, seq_default)

\* bug: the elements come out in reverse
deserialize_VecSound_reversed(v, seq_default) ==
    IF v.t # "arr" THEN Err("invalid type")
    ELSE LET n == Len(v.a)
             res == [i \in 1..n |-> Sound_deserialize(v.a[n + 1 - i], seq_default)]
             bad == {i \in 1..n : ~res[i].ok}
         IN  IF bad # {} THEN Err(res[CHOOSE i \in bad : \A j \in bad : i <= j].e)
             ELSE Ok([i \in 1..n |-> res[i].v])

\* Vec<Sound>: every element must decode, and the elements keep their places.
deserialize_VecSound(v, seq_default) ==
    IF v.t # "arr" THEN Err("invalid type")
    ELSE LET res == [i \in 1..Len(v.a) |-> Sound_deserialize(v.a[i], seq_default)]
             bad == {i \in 1..Len(v.a) : ~res[i].ok}
         IN  IF bad # {} THEN Err(res[CHOOSE i \in bad : \A j \in bad : i <= j].e)
             ELSE Ok([i \in 1..Len(v.a) |-> res[i].v])

\* The Deserialize of a field, by its type.
deserialize_field(ty, v, seq_default) ==
    CASE ty = "i32" -> deserialize_i32(v)
      [] ty = "f32" -> deserialize_f32(v)
      [] ty = "String" -> deserialize_String(v)
      [] ty = "VecString" -> deserialize_VecString(v)
      [] ty = "OptString" -> deserialize_Option(v, deserialize_String(v))
      [] ty = "OptF32" -> deserialize_Option(v, deserialize_f32(v))
      [] ty = "OptI32" -> deserialize_Option(v, deserialize_i32(v))
      [] ty = "OptValue" -> deserialize_OptionValue(v)
      [] ty = "OptPreviews" -> deserialize_Option(v, Previews_deserialize(v))
      [] ty = "OptImages" -> deserialize_Option(v, Images_deserialize(v))
      [] ty = "VecSound" -> deserialize_VecSound(v, seq_default)

\* #[derive(Deserialize)] on a struct with fields F: a JSON object is read
\* by key (unknown keys ignored), a JSON array by position.
deserialize_struct(F, cdefault, dvalue, v, seq_default) ==
    LET n == Len(F)
        one(i) ==
            IF v.t = "obj"
            THEN IF F[i].key \in DOMAIN v.o
                 THEN deserialize_field(F[i].ty, v.o[F[i].key], seq_default)
                 ELSE missing_in_map(F[i], cdefault, dvalue)
            ELSE IF i <= Len(v.a)
                 THEN deserialize_field(F[i].ty, v.a[i], seq_default)
                 ELSE missing_in_seq(F[i], cdefault, dvalue, seq_default)
        res == [i \in 1..n |-> one(i)]
        bad == {i \in 1..n : ~res[i].ok}
    IN  IF v.t \notin {"obj", "arr"} THEN Err("invalid type")
        ELSE IF v.t = "arr" /\ Len(v.a) > n THEN Err("trailing characters")
        ELSE IF bad # {} THEN Err(res[CHOOSE i \in bad : \A j \in bad : i <= j].e)
        ELSE Ok([nm \in {F[i].name : i \in 1..n} |->
                    res[CHOOSE i \in 1..n : F[i].name = nm].v])

\* #[derive(Deserialize)] struct SearchResponse
SearchResponse_deserialize(v, seq_default) ==
    deserialize_struct(SearchResponse, FALSE, <<>>, v, seq_default)

\* serde_json::from_str::<T>: a syntax error, or else value, the outcome of
\* T's Deserialize on the JSON value the text denotes.
from_str(text, value) ==
    IF text.t = "malformed" THEN Err("syntax error") ELSE value

\* ------------------------------------------------------------------------
\* Payloads handed to the decoder

\* For a field type: a value of the type, null, and a value of another type.
Samples(ty) ==
    CASE ty = "i32" -> {JInt(42), JNull, JStr("x"), JFloat(3)}
      [] ty = "f32" -> {JFloat(3), JInt(2), JNull, JStr("x")}
      [] ty = "String" -> {JStr("x"), JNull, JInt(7)}
      [] ty = "VecString" -> {JArr(<<JStr("a"), JStr("b")>>), JNull, JArr(<<JInt(1)>>)}
      [] ty = "OptString" -> {JStr("x"), JNull, JInt(7)}
      [] ty = "OptF32" -> {JFloat(3), JNull, JStr("x")}
      [] ty = "OptI32" -> {JInt(16), JNull, JFloat(3)}
      [] ty = "OptValue" -> {JObj([lowlevel |-> JInt(1)]), JNull, JStr("x")}
      [] ty = "OptPreviews" ->
            {JObj([k \in {Previews[i].key : i \in 1..4} |-> JStr("u")]), JNull, JObj(<<>>)}
      [] ty = "OptImages" ->
            {JObj([k \in {Images[i].key : i \in 1..4} |-> JStr("u")]), JNull, JObj(<<>>)}

SoundKeys == {Sound[i].key : i \in 1..Len(Sound)}
KeyType(k) == Sound[CHOOSE i \in 1..Len(Sound) : Sound[i].key = k].ty
UnknownKey == "unknown"

\* Every key a Sound payload may carry with each of its sample values, and a
\* key the struct does not know.
KeyValues ==
    UNION {{<<k, x>> : x \in Samples(KeyType(k))} : k \in SoundKeys}
        \cup {<<UnknownKey, JInt(1)>>}

\* The JSON objects obtained from base by setting at most n keys.
RECURSIVE ObjectsFrom(_, _)
ObjectsFrom(base, n) ==
    IF n = 0 THEN {base}
    ELSE LET fewer == ObjectsFrom(base, n - 1)
             ext(o, k, x) == [j \in DOMAIN o \cup {k} |-> IF j = k THEN x ELSE o[j]]
         IN  fewer \cup {ext(o, kx[1], kx[2]) : o \in fewer, kx \in KeyValues}

\* An object with every key of Sound present and well typed.
FullSound ==
    [k \in SoundKeys |->
        LET ty == KeyType(k)
        IN  CASE ty = "i32" -> JInt(42)
              [] ty \in {"f32", "OptF32"} -> JFloat(3)
              [] ty = "OptI32" -> JInt(16)
              [] ty \in {"String", "OptString"} -> JStr("x")
              [] ty = "VecString" -> JArr(<<JStr("a"), JStr("b")>>)
              [] ty = "OptValue" -> JObj([lowlevel |-> JInt(1)])
              [] ty = "OptPreviews" -> JObj([j \in {Previews[i].key : i \in 1..4} |-> JStr("u")])
              [] ty = "OptImages" -> JObj([j \in {Images[i].key : i \in 1..4} |-> JStr("u")])]

\* The subsets of S with at most n elements.
RECURSIVE SubsetsUpTo(_, _)
SubsetsUpTo(S, n) ==
    IF n = 0 THEN {{}}
    ELSE LET fewer == SubsetsUpTo(S, n - 1)
         IN  fewer \cup {X \cup {x} : X \in fewer, x \in S}

\* FullSound with at most n keys left out.
Omitting(n) ==
    {[k \in SoundKeys \ K |-> FullSound[k]] : K \in SubsetsUpTo(SoundKeys, n)}

SoundPayloads ==
    {Malformed, JNull, JInt(5), JStr("x"), JArr(<<>>), JArr(<<JInt(5)>>),
     JArr(<<JStr("x")>>)}
        \cup {JObj(o) : o \in ObjectsFrom(<<>>, MaxKeys)}
        \cup {JObj(o) : o \in ObjectsFrom([id |-> JInt(42)], MaxKeys)}
        \cup {JObj(o) : o \in Omitting(MaxKeys)}

SoundItems ==
    {JObj([id |-> JInt(1)]), JObj([id |-> JInt(2), name |-> JStr("x")]),
     JObj(<<>>), JObj([id |-> JStr("x")])}

Absent == [t |-> "absent"]

Envelope(c, n, r, p) ==
    LET all == [count |-> c, next |-> n, results |-> r, previous |-> p]
        present == {k \in DOMAIN all : all[k] # Absent}
    IN  JObj([k \in present |-> all[k]])

EnvelopePayloads ==
    {Envelope(c, n, r, p) :
        c \in {JInt(0), JInt(2), JStr("x"), Absent},
        n \in {JStr("page3"), JNull, Absent},
        r \in {JArr(l) : l \in ListsUpTo(SoundItems, MaxResults)} \cup {JNull, Absent},
        p \in {JStr("page1"), JNull, JInt(1), Absent}}

\* ------------------------------------------------------------------------
\* Decoding a payload into one of the two shapes

\* The serde_derive releases a build can have
SerdeBuilds == BOOLEAN

Sound_from_str(text, seq_default) ==
    from_str(text, Sound_deserialize(text, seq_default))

SearchResponse_from_str(text, seq_default) ==
    from_str(text, SearchResponse_deserialize(text, seq_default))

decode_Sound ==
    /\ decoded = None
    /\ \E sd \in SerdeBuilds :
        decoded' = Some([shape |-> "Sound", res |-> Sound_from_str(payload, sd)])
    /\ UNCHANGED payload
    /\ UNCHANGED <<builderVars, clientVars>>

decode_SearchResponse ==
    /\ decoded = None
    /\ \E sd \in SerdeBuilds :
        decoded' = Some([shape |-> "SearchResponse",
                         res |-> SearchResponse_from_str(payload, sd)])
    /\ UNCHANGED payload
    /\ UNCHANGED <<builderVars, clientVars>>

\* ------------------------------------------------------------------------
\* error.rs: FreesoundError

RequestError(e) == [kind |-> "RequestError", source |-> e]
AuthError(msg) == [kind |-> "AuthError", msg |-> msg]
ApiError(msg, st, text) == [kind |-> "ApiError", msg |-> msg, status |-> st, body |-> text]

\* ------------------------------------------------------------------------
\* client.rs: FreesoundClient

DEFAULT_BASE_URL == "https://freesound.org/apiv2"

FreesoundClient_new(key, base) ==
    [api_key |-> key, base_url |-> IF base = None THEN DEFAULT_BASE_URL ELSE base[1]]

RECURSIVE trim_start_matches(_, _)
trim_start_matches(str, c) ==
    IF Len(str) > 0 /\ SubSeq(str, 1, 1) = c
    THEN trim_start_matches(SubSeq(str, 2, Len(str)), c)
    ELSE str

\* bug: the credential is not attached
request_without_token(method, path) ==
    [method |-> method,
     url |-> base_url \o "/" \o trim_start_matches(path, "/"),
     query |-> <<>>]

\* The RequestBuilder returned by request(): the credential is its first
\* query pair.
request(method, path) ==
    [method |-> method,
     url |-> base_url \o "/" \o trim_start_matches(path, "/"),
     query |-> << <<"token", api_key>> >>]

\* RequestBuilder::query appends pairs.
with_query(req, pairs) == [req EXCEPT !.query = @ \o pairs]

\* StatusCode::is_success
is_success(st) == 200 <= st /\ st <= 299

UNAUTHORIZED == 401

Unit == "()"

\* What the transport can answer
ApiKeys == {"key1", "key2"}
BaseUrls == {None, Some("https://custom.api.url")}
Statuses == {200, 201, 401, 404, 500}
Bodies ==
    {Malformed, JNull, JStr("id"), JArr(<<>>), JArr(<<JInt(1)>>),
     JObj(<<>>), JObj([id |-> JInt(42)]), JObj([id |-> JNull]), JObj([id |-> JStr("x")]),
     JObj([id |-> JInt(42), name |-> JStr("x"), bitrate |-> JNull]),
     Envelope(JInt(0), JNull, JArr(<<>>), JNull),
     Envelope(JInt(2), JStr("page3"), JArr(<<JObj([id |-> JInt(2)]), JObj([id |-> JInt(1)])>>), Absent),
     Envelope(Absent, JNull, JArr(<<>>), JNull)}
SendResults == {Err("connect")} \cup {Ok(st) : st \in Statuses}
BodyResults == {Err("body")} \cup {Ok(b) : b \in Bodies}
\* search takes any slice of pairs: lists rendered by the builder, and one
\* the caller wrote by hand.
SearchQueries ==
    {<< <<"token", "other">> >>,
     build(SearchQueryBuilder_new),
     build([SearchQueryBuilder_new EXCEPT !.query = Some("piano")]),
     build([SearchQueryBuilder_new EXCEPT !.query = Some("music"),
                !.sort = Some("RatingDesc"), !.page = Some(1),
                !.fields = Some(<<"id", "name", "tags">>)])}
SoundIds == {1234, -7}

\* bug: the request is sent a second time
Call_resend(name, a, req) ==
    /\ pc = "idle"
    /\ op' = name
    /\ args' = a
    /\ sent' = Append(Append(sent, req), req)
    /\ pc' = "send_await"
    /\ UNCHANGED <<api_key, base_url, status, body, outcome>>
    /\ UNCHANGED <<builderVars, decodeVars>>

\* An operation starts: its request goes on the wire.
Call(name, a, req) ==
    /\ pc = "idle"
    /\ op' = name
    /\ args' = a
    /\ sent' = Append(sent, req)
    /\ pc' = "send_await"
    /\ UNCHANGED <<api_key, base_url, status, body, outcome>>
    /\ UNCHANGED <<builderVars, decodeVars>>

\* The operation returns r.
Return(r) ==
    /\ outcome' = Some(r)
    /\ pc' = "done"

ClientFrame ==
    /\ UNCHANGED <<api_key, base_url, op, args, sent>>
    /\ UNCHANGED <<builderVars, decodeVars>>

\* ---- test_api_key

test_api_key_call == Call("test_api_key", <<>>, request("GET", "sounds/794253"))

\* send().await resolves: `?` on a transport error, else the 401 check
test_api_key_send ==
    /\ op = "test_api_key" /\ pc = "send_await"
    /\ \E r \in SendResults :
        IF ~r.ok THEN Return(Err(RequestError(r.e))) /\ UNCHANGED status
        ELSE /\ status' = Some(r.v)
             /\ IF r.v = UNAUTHORIZED THEN Return(Err(AuthError("Invalid API key")))
                ELSE pc' = "text_await" /\ UNCHANGED outcome
    /\ UNCHANGED body
    /\ ClientFrame

\* bug: any well-formed JSON body counts as success
test_api_key_result_any_json(st, text) ==
    IF ~is_success(st) THEN Err(ApiError("API request failed", Some(st), Some(text)))
    ELSE LET parsed == from_str(text, Ok(text))
         IN  IF parsed.ok THEN Ok(Unit)
             ELSE Err(ApiError("Invalid JSON response", None, Some(text)))

\* what test_api_key returns once the body text is in hand
test_api_key_result(st, text) ==
    IF ~is_success(st) THEN Err(ApiError("API request failed", Some(st), Some(text)))
    ELSE LET parsed == from_str(text, Ok(text))
         IN  IF parsed.ok
             THEN IF Value_get(parsed.v, "id") # None
                  THEN Ok(Unit)
                  ELSE Err(ApiError("Response missing sound ID", None, Some(text)))
             ELSE Err(ApiError("Invalid JSON response", None, Some(text)))

\* response.text().await resolves, on either side of `!status.is_success()`
test_api_key_text ==
    /\ op = "test_api_key" /\ pc = "text_await"
    /\ \E r \in BodyResults :
        IF ~r.ok THEN Return(Err(RequestError(r.e))) /\ UNCHANGED body
        ELSE body' = Some(r.v) /\ Return(test_api_key_result(status[1], r.v))
    /\ UNCHANGED status
    /\ ClientFrame

\* ---- search

search_call ==
    \E q \in SearchQueries :
        Call("search", <<q>>, with_query(request("GET", "search/text"), q))

\* bug: search singles out 401 the way the probe does
search_send_auth ==
    /\ op = "search" /\ pc = "send_await"
    /\ \E r \in SendResults :
        IF ~r.ok THEN Return(Err(RequestError(r.e))) /\ UNCHANGED status
        ELSE IF r.v = UNAUTHORIZED
        THEN status' = Some(r.v) /\ Return(Err(AuthError("Invalid API key")))
        ELSE /\ status' = Some(r.v)
             /\ pc' = IF is_success(r.v) THEN "json_await" ELSE "text_await"
             /\ UNCHANGED outcome
    /\ UNCHANGED body
    /\ ClientFrame

search_send ==
    /\ op = "search" /\ pc = "send_await"
    /\ \E r \in SendResults :
        IF ~r.ok THEN Return(Err(RequestError(r.e))) /\ UNCHANGED status
        ELSE /\ status' = Some(r.v)
             /\ pc' = IF is_success(r.v) THEN "json_await" ELSE "text_await"
             /\ UNCHANGED outcome
    /\ UNCHANGED body
    /\ ClientFrame

\* non-success status: response.text().await resolves
search_text ==
    /\ op = "search" /\ pc = "text_await"
    /\ \E r \in BodyResults :
        IF ~r.ok THEN Return(Err(RequestError(r.e))) /\ UNCHANGED body
        ELSE body' = Some(r.v)
             /\ Return(Err(ApiError("API request failed", status, Some(r.v))))
    /\ UNCHANGED status
    /\ ClientFrame

\* response.json::<T>() on a body that was read: reqwest wraps a serde_json
\* failure in its own (decode) error, and map_err(FreesoundError::from) makes
\* every reqwest::Error a RequestError.
search_json_result(text, seq_default) ==
    LET d == SearchResponse_from_str(text, seq_default)
    IN  IF d.ok THEN Ok(d.v) ELSE Err(RequestError("decode"))

\* success status: response.json::<SearchResponse>().await resolves
search_json ==
    /\ op = "search" /\ pc = "json_await"
    /\ \E r \in BodyResults, sd \in SerdeBuilds :
        IF ~r.ok THEN Return(Err(RequestError(r.e))) /\ UNCHANGED body
        ELSE body' = Some(r.v) /\ Return(search_json_result(r.v, sd))
    /\ UNCHANGED status
    /\ ClientFrame

\* ---- get_sound

get_sound_request(sound_id, desc, norm) ==
    LET r0 == request("GET", "sounds/" \o i32_to_string(sound_id))
        r1 == IF desc # None
              THEN with_query(r0, << <<"descriptors", join(desc[1], ",")>> >>) ELSE r0
        r2 == IF norm # None
              THEN with_query(r1, << <<"normalized", IF norm[1] THEN "1" ELSE "0">> >>)
              ELSE r1
    IN  r2

GetSoundArgs ==
    {<<sound_id, desc, norm>> :
        sound_id \in SoundIds,
        desc \in {None} \cup {Some(l) : l \in DescriptorLists \cup NameLists},
        norm \in {None, Some(TRUE), Some(FALSE)}}

get_sound_call ==
    \E a \in GetSoundArgs : Call("get_sound", a, get_sound_request(a[1], a[2], a[3]))

get_sound_send ==
    /\ op = "get_sound" /\ pc = "send_await"
    /\ \E r \in SendResults :
        IF ~r.ok THEN Return(Err(RequestError(r.e))) /\ UNCHANGED status
        ELSE /\ status' = Some(r.v)
             /\ pc' = IF is_success(r.v) THEN "json_await" ELSE "text_await"
             /\ UNCHANGED outcome
    /\ UNCHANGED body
    /\ ClientFrame

get_sound_text ==
    /\ op = "get_sound" /\ pc = "text_await"
    /\ \E r \in BodyResults :
        IF ~r.ok THEN Return(Err(RequestError(r.e))) /\ UNCHANGED body
        ELSE body' = Some(r.v)
             /\ Return(Err(ApiError("API request failed", status, Some(r.v))))
    /\ UNCHANGED status
    /\ ClientFrame

get_sound_json_result(text, seq_default) ==
    LET d == Sound_from_str(text, seq_default)
    IN  IF d.ok THEN Ok(d.v) ELSE Err(RequestError("decode"))

get_sound_json ==
    /\ op = "get_sound" /\ pc = "json_await"
    /\ \E r \in BodyResults, sd \in SerdeBuilds :
        IF ~r.ok THEN Return(Err(RequestError(r.e))) /\ UNCHANGED body
        ELSE body' = Some(r.v) /\ Return(get_sound_json_result(r.v, sd))
    /\ UNCHANGED status
    /\ ClientFrame

\* ------------------------------------------------------------------------
\* Specifications

InitBuilder ==
    /\ builder = SearchQueryBuilder_new
    /\ called = [k \in DOMAIN SearchQueryBuilder_new |-> None]
    /\ ncalls = 0
    /\ ret = None
    /\ nbuilds = 0

InitClient ==
    /\ api_key = "key1"
    /\ base_url = DEFAULT_BASE_URL
    /\ op = "none"
    /\ pc = "idle"
    /\ args = <<>>
    /\ sent = <<>>
    /\ status = None
    /\ body = None
    /\ outcome = None

InitDecode ==
    /\ payload = JNull
    /\ decoded = None

DecodeInit ==
    /\ InitBuilder
    /\ InitClient
    /\ payload \in SoundPayloads \cup EnvelopePayloads
    /\ decoded = None

DecodeNext == decode_Sound \/ decode_SearchResponse

DecodeSpec == DecodeInit /\ [][DecodeNext]_vars

BuilderInit == InitBuilder /\ InitClient /\ InitDecode

BuilderNext ==
    \/ (query \/ filter \/ sort \/ group_by_pack \/ page \/ page_size
            \/ fields \/ descriptors \/ normalized \/ Build)
       /\ UNCHANGED <<clientVars, decodeVars>>

BuilderSpec == BuilderInit /\ [][BuilderNext]_vars

Init ==
    /\ InitBuilder
    /\ InitDecode
    /\ \E key \in ApiKeys, base \in BaseUrls :
        LET c == FreesoundClient_new(key, base)
        IN  api_key = c.api_key /\ base_url = c.base_url
    /\ op = "none" /\ pc = "idle" /\ args = <<>> /\ sent = <<>>
    /\ status = None /\ body = None /\ outcome = None

Next ==
    \/ test_api_key_call \/ test_api_key_send \/ test_api_key_text
    \/ search_call \/ search_send \/ search_text \/ search_json
    \/ get_sound_call \/ get_sound_send \/ get_sound_text \/ get_sound_json

Spec == Init /\ [][Next]_vars

\* ------------------------------------------------------------------------
\* Properties of the query builder (BuilderSpec)

\* The fixed key order of the rendered pair list.
KeyOrder ==
    <<"query", "filter", "sort", "group_by_pack", "page", "page_size",
      "fields", "descriptors", "normalized">>

Keys(params) == [i \in 1..Len(params) |-> params[i][1]]

CalledSetters == {k \in DOMAIN called : called[k] # None}

IsCalled(k) == k \in CalledSetters

\* The argument of the most recent call of a setter, if it was called.
LastArg(name) == called[name]

\* The value rendered for a key, if the key occurs; Count is how often it occurs.
Count(params, k) == Cardinality({i \in 1..Len(params) : params[i][1] = k})

Lookup(params, k) ==
    LET I == {i \in 1..Len(params) : params[i][1] = k}
    IN  IF I = {} THEN None ELSE Some(params[CHOOSE i \in I : \A j \in I : i <= j][2])

\* The pieces of a string between occurrences of a one-character separator.
RECURSIVE Split(_, _)
Split(str, c) ==
    LET I == {i \in 1..Len(str) : SubSeq(str, i, i) = c}
    IN  IF I = {} THEN <<str>>
        ELSE LET i == CHOOSE x \in I : \A y \in I : x <= y
             IN  <<SubSeq(str, 1, i - 1)>> \o Split(SubSeq(str, i + 1, Len(str)), c)

\* value is the elements of list joined by single commas, in order, each
\* element once per occurrence, with nothing before the first or after the last.
JoinedByCommas(list, value) ==
    IF list = <<>> THEN value = "" ELSE Split(value, ",") = list

BoolToken(b) == IF b THEN "1" ELSE "0"

\* C1: whatever setters were called and in whatever order, build() returns
\* the keys of exactly the setters called, each once, in the fixed order; with
\* no setter called the list is empty.
C1_BuildKeysInFixedOrder ==
    ret # None =>
        /\ Keys(ret[1]) = SelectSeq(KeyOrder, IsCalled)
        /\ \A k \in CalledSetters : Count(ret[1], k) = 1
        /\ (ncalls = 0 => ret[1] = <<>>)

\* build() after three different setters
C1_Witness ==
    /\ ret # None
    /\ ncalls = 3
    /\ CalledSetters = {"normalized", "fields", "query"}
    /\ Keys(ret[1]) = <<"query", "fields", "normalized">>

\* C9: a boolean parameter renders as exactly "1" for true and "0" for false,
\* in build() for group_by_pack and normalized and in the request of get_sound
\* for normalized.
C9_BooleansRenderAsOneOrZero ==
    /\ ret # None =>
        \A k \in {"group_by_pack", "normalized"} :
            LastArg(k) # None => Lookup(ret[1], k) = Some(BoolToken(LastArg(k)[1]))
    /\ \A norm \in BOOLEAN, desc \in {None, Some(<<"rhythm.bpm">>)} :
            LET q == get_sound_request(1234, desc, Some(norm)).query
            IN  Lookup(q, "normalized") = Some(BoolToken(norm)) /\ Count(q, "normalized") = 1

C9_Witness ==
    /\ ret # None
    /\ LastArg("group_by_pack") = Some(TRUE) /\ LastArg("normalized") = Some(FALSE)
    /\ Lookup(ret[1], "group_by_pack") = Some("1")
    /\ Lookup(ret[1], "normalized") = Some("0")

\* C10: the list passed to fields() or descriptors() renders as its elements
\* joined by single commas in input order, duplicates kept, no leading or
\* trailing separator, the empty list as the empty string; the descriptors of
\* get_sound are joined the same way.
C10_ListsRenderCommaJoined ==
    /\ ret # None =>
        /\ \A k \in {"fields", "descriptors"} :
            LastArg(k) # None =>
                /\ Lookup(ret[1], k) # None
                /\ JoinedByCommas(LastArg(k)[1], Lookup(ret[1], k)[1])
        /\ LastArg("fields") = Some(<<"id", "name", "id">>)
                => Lookup(ret[1], "fields") = Some("id,name,id")
    /\ \A desc \in NameLists \cup DescriptorLists :
            LET q == get_sound_request(1234, Some(desc), None).query
            IN  /\ Lookup(q, "descriptors") # None
                /\ JoinedByCommas(desc, Lookup(q, "descriptors")[1])

C10_Witness ==
    /\ ret # None
    /\ LastArg("fields") = Some(<<"id", "name", "id">>)
    /\ LastArg("descriptors") = Some(<<>>)
    /\ Lookup(ret[1], "fields") = Some("id,name,id")
    /\ Lookup(ret[1], "descriptors") = Some("")

\* The token documented for each sort variant.
SortToken ==
    [Score |-> "score", DurationAsc |-> "duration_asc",
     DurationDesc |-> "duration_desc", CreatedAsc |-> "created_asc",
     CreatedDesc |-> "created_desc", DownloadsAsc |-> "downloads_asc",
     DownloadsDesc |-> "downloads_desc", RatingAsc |-> "rating_asc",
     RatingDesc |-> "rating_desc"]

SnakeCaseChars ==
    {"a", "b", "c", "d", "e", "f", "g", "h", "i", "j", "k", "l", "m", "n", "o",
     "p", "q", "r", "s", "t", "u", "v", "w", "x", "y", "z", "_"}

IsLowerSnakeCase(str) ==
    /\ Len(str) > 0
    /\ \A i \in 1..Len(str) : SubSeq(str, i, i) \in SnakeCaseChars

\* C11: there are nine sort variants; each renders to its own documented
\* lowercase snake-case token, the nine tokens are pairwise distinct, build()
\* emits the token of the variant last given to sort(), and when sort() was
\* never called build() emits no "sort" pair.
C11_SortTokens ==
    /\ Cardinality(SortOption) = 9 /\ DOMAIN SortToken = SortOption
    /\ \A v \in SortOption :
        /\ SortOption_to_string(v) = SortToken[v]
        /\ IsLowerSnakeCase(SortOption_to_string(v))
    /\ \A v, w \in SortOption :
        v # w => SortOption_to_string(v) # SortOption_to_string(w)
    /\ ret # None =>
        IF IsCalled("sort")
        THEN /\ Count(ret[1], "sort") = 1
             /\ Lookup(ret[1], "sort") = Some(SortToken[LastArg("sort")[1]])
        ELSE Count(ret[1], "sort") = 0

\* build() after sort(DurationAsc) and two other setters
C11_Witness ==
    /\ ret # None
    /\ LastArg("sort") = Some("DurationAsc")
    /\ Cardinality(CalledSetters) = 3
    /\ Lookup(ret[1], "sort") = Some("duration_asc")

\* build() when sort() was never called
C11_WitnessUnset ==
    /\ ret # None /\ ncalls = 3 /\ ~IsCalled("sort") /\ Len(ret[1]) = 3

\* C12: build() leaves every builder field unchanged, and a build() that
\* follows another build() with no setter call in between returns the same
\* pair list as the one before it.
C12_BuildIsPure ==
    [][nbuilds' = nbuilds + 1 =>
            /\ builder' = builder
            /\ ret' = Some(build(builder))
            /\ (nbuilds >= 1 => ret # None /\ ret' = ret)]_vars

\* build() called twice in a row on a builder holding three parameters
C12_Witness ==
    /\ nbuilds = 2
    /\ ret # None /\ Len(ret[1]) = 3
    /\ builder.query # None

\* What build() returns for a builder on which each called setter was called
\* once, with the argument of its latest call, and no other setter at all.
BuildOfLastArgs == build([k \in DOMAIN SearchQueryBuilder_new |-> LastArg(k)])

\* C15: every parameter holds the argument of the latest call of its setter;
\* build() emits each called setter's key once, with the value of the latest
\* call and nothing from earlier calls; and a setter call changes the stored
\* value of no parameter but its own.
C15_LastSetterCallWins ==
    /\ [](/\ \A k \in DOMAIN builder : builder[k] = LastArg(k)
          /\ ret # None =>
                /\ ret[1] = BuildOfLastArgs
                /\ Len(ret[1]) = Cardinality(CalledSetters)
                /\ \A k \in CalledSetters : Count(ret[1], k) = 1)
    /\ [][ncalls' = ncalls + 1 =>
            \E k \in DOMAIN builder :
                /\ builder'[k] # None /\ builder'[k] = called'[k]
                /\ \A j \in DOMAIN builder \ {k} : builder'[j] = builder[j]]_vars

\* build() after page() was called three times and no other setter
C15_Witness ==
    /\ ret # None
    /\ ncalls = 3
    /\ CalledSetters = {"page"}
    /\ LastArg("page") = Some(-1)
    /\ ret[1] = << <<"page", "-1">> >>

\* ------------------------------------------------------------------------
\* Properties of the client operations (Spec)

Kind == IF outcome = None THEN "none"
        ELSE IF outcome[1].ok THEN "Ok" ELSE outcome[1].e.kind

ProbeDone == op = "test_api_key" /\ pc = "done"

\* C2: for the probe, status 401 gives AuthError; status 200 with body
\* {"id": 42} gives success; status 200 with body {} gives ApiError; any other
\* non-success status gives ApiError, and so does a success status with a body
\* that is not JSON.  (A response is a status and the body that came with it.)
C2_ProbeOutcomes ==
    ProbeDone =>
        /\ status = Some(401) => Kind = "AuthError"
        /\ status = Some(200) /\ body = Some(JObj([id |-> JInt(42)])) => Kind = "Ok"
        /\ status = Some(200) /\ body = Some(JObj(<<>>)) => Kind = "ApiError"
        /\ status # None /\ body # None =>
            /\ ~is_success(status[1]) /\ status[1] # 401 => Kind = "ApiError"
            /\ is_success(status[1]) /\ body[1] = Malformed => Kind = "ApiError"

C2_Witness ==
    /\ ProbeDone
    /\ status = Some(200) /\ body = Some(JObj(<<>>))
    /\ Kind = "ApiError"

\* C3: the probe returns success only when the status is a success status and
\* the JSON body contains a non-null `id`; {"id": null} is not a success.
C3_ProbeSuccessNeedsNonNullId ==
    ProbeDone /\ Kind = "Ok" =>
        /\ status # None /\ is_success(status[1])
        /\ body # None /\ body[1].t = "obj"
        /\ "id" \in DOMAIN body[1].o
        /\ body[1].o["id"] # JNull

\* C5: for search and get_sound, a success status whose body does not decode
\* into the expected shape gives ApiError, not RequestError.
C5_DecodeFailureIsApiError ==
    /\ op \in {"search", "get_sound"} /\ pc = "done"
    /\ status # None /\ is_success(status[1])
    /\ body # None /\ Kind # "Ok"
    => Kind = "ApiError"

SoundNames == {Sound[i].name : i \in 1..Len(Sound)}

FullyDecoded(v) ==
    CASE op = "test_api_key" -> v = Unit
      [] op = "get_sound" -> DOMAIN v = SoundNames
      [] op = "search" ->
            /\ DOMAIN v = {"count", "next", "results", "previous"}
            /\ \A i \in 1..Len(v.results) : DOMAIN v.results[i] = SoundNames

\* C8: an operation puts exactly one request on the wire and never another,
\* and it ends in exactly one outcome: a fully decoded value, or one of
\* RequestError, AuthError, ApiError with no value beside it.
C8_OneRequestOneOutcome ==
    /\ pc = "idle" => sent = <<>> /\ outcome = None
    /\ pc # "idle" => Len(sent) = 1
    /\ pc = "done" <=> outcome # None
    /\ outcome # None =>
        IF outcome[1].ok
        THEN DOMAIN outcome[1] = {"ok", "v"} /\ FullyDecoded(outcome[1].v)
        ELSE /\ DOMAIN outcome[1] = {"ok", "e"}
             /\ outcome[1].e.kind \in {"RequestError", "AuthError", "ApiError"}

C8_Witness ==
    /\ op = "search" /\ pc = "done"
    /\ Len(sent) = 1
    /\ Kind = "Ok" /\ Len(outcome[1].v.results) = 2

\* ------------------------------------------------------------------------
\* Properties of decoding (DecodeSpec)

SoundDecoded == decoded # None /\ decoded[1].shape = "Sound"
EnvelopeDecoded == decoded # None /\ decoded[1].shape = "SearchResponse"

\* C4 as claimed: decoding a Sound fails when the payload is not well-formed
\* JSON, or when `id` is absent from the object or has the wrong type.
C4_SoundDecodeNeedsId ==
    SoundDecoded =>
        ((\/ payload = Malformed
          \/ /\ payload.t = "obj"
             /\ \/ "id" \notin DOMAIN payload.o
                \/ payload.o["id"].t # "int")
         => ~decoded[1].res.ok)

\* C4 as amended: decoding a Sound fails when the payload is not well-formed
\* JSON, or when `id` is present with the wrong type; an absent `id` is no
\* failure: the empty object decodes, and an object that decodes without `id`
\* has id 0.
C4_SoundDecodeChecksIdType ==
    SoundDecoded =>
        /\ (\/ payload = Malformed
            \/ /\ payload.t = "obj"
               /\ "id" \in DOMAIN payload.o
               /\ payload.o["id"].t # "int")
           => ~decoded[1].res.ok
        /\ payload = JObj(<<>>) => decoded[1].res.ok
        /\ payload.t = "obj" /\ "id" \notin DOMAIN payload.o /\ decoded[1].res.ok
           => decoded[1].res.v.id = 0

C4_Witness ==
    /\ SoundDecoded
    /\ payload = JObj([name |-> JStr("x")])
    /\ decoded[1].res.ok
    /\ decoded[1].res.v.id = 0

\* The default the record is said to give each field.
ClaimedDefault(name) ==
    CASE name \in {"channels", "filesize", "num_downloads", "num_ratings", "num_comments"} -> 0
      [] name \in {"duration", "samplerate", "avg_rating"} -> F32(0)
      [] name = "tags" -> <<>>
      [] name \in {"geotag", "bitrate", "bitdepth", "pack", "previews", "images", "analysis"} -> None
      [] OTHER -> ""

NameOfKey(k) == Sound[CHOOSE i \in 1..Len(Sound) : Sound[i].key = k].name

\* C6: an object with only `id` decodes, every other field taking its
\* default; more generally leaving out any of the other fields never makes
\* decoding fail, and each field left out has its default.
C6_MissingFieldsTakeDefaults ==
    SoundDecoded /\ payload.t = "obj" =>
        LET o == payload.o
            res == decoded[1].res
            present == DOMAIN o \cap SoundKeys
        IN  /\ DOMAIN o = {"id"} /\ o["id"].t = "int" =>
                /\ res.ok
                /\ res.v = [n \in SoundNames |->
                                IF n = "id" THEN o["id"].n ELSE ClaimedDefault(n)]
            /\ "id" \in DOMAIN o /\ (\A k \in present : deserialize_field(KeyType(k), o[k], TRUE).ok) =>
                /\ res.ok
                /\ \A k \in SoundKeys \ present :
                        res.v[NameOfKey(k)] = ClaimedDefault(NameOfKey(k))

C6_Witness ==
    /\ SoundDecoded
    /\ payload = JObj([id |-> JInt(42)])
    /\ decoded[1].res.ok
    /\ decoded[1].res.v.id = 42 /\ decoded[1].res.v.name = ""
    /\ decoded[1].res.v.tags = <<>> /\ decoded[1].res.v.geotag = None

\* C7: the envelope with count 0, no results and null links decodes to an
\* empty item sequence with both links absent; for any envelope the items are
\* in the order of `results`, a link string is kept as it is, and a null or
\* missing link is absent.
C7_EnvelopeKeepsOrderAndLinks ==
    EnvelopeDecoded =>
        LET res == decoded[1].res
            Link(k) ==
                IF k \in DOMAIN payload.o /\ payload.o[k].t = "str"
                THEN res.v[k] = Some(payload.o[k].s)
                ELSE res.v[k] = None
        IN  /\ payload = Envelope(JInt(0), JNull, JArr(<<>>), JNull) =>
                /\ res.ok
                /\ res.v.count = 0 /\ res.v.results = <<>>
                /\ res.v.next = None /\ res.v.previous = None
            /\ res.ok /\ payload.t = "obj" =>
                /\ Len(res.v.results) = Len(payload.o["results"].a)
                /\ \A i \in 1..Len(res.v.results) :
                        Ok(res.v.results[i]) = Sound_deserialize(payload.o["results"].a[i], TRUE)
                /\ Link("next") /\ Link("previous")

C7_Witness ==
    /\ EnvelopeDecoded
    /\ decoded[1].res.ok
    /\ Len(decoded[1].res.v.results) = 2
    /\ decoded[1].res.v.results[1].id = 2 /\ decoded[1].res.v.results[2].id = 1
    /\ decoded[1].res.v.next = Some("page3") /\ decoded[1].res.v.previous = None

\* ------------------------------------------------------------------------
\* The credential and the error kinds (Spec)

TokenPairs(req) == Count(req.query, "token")

\* The pairs the caller handed to the operation in progress (search only).
CallerPairs == IF op = "search" THEN args[1] ELSE <<>>

ConfiguredAsConstructed ==
    /\ \A key \in ApiKeys :
        /\ FreesoundClient_new(key, None).base_url = "https://freesound.org/apiv2"
        /\ \A base \in BaseUrls :
            /\ FreesoundClient_new(key, base).api_key = key
            /\ base # None => FreesoundClient_new(key, base).base_url = base[1]
    /\ api_key \in ApiKeys
    /\ base_url \in {FreesoundClient_new(api_key, base).base_url : base \in BaseUrls}

\* C13 as stated: every request of test_api_key, search and get_sound carries
\* exactly one `token` pair, whose value is the client's api_key; api_key and
\* base_url never change; base_url is the default when none was supplied.
C13_ExactlyOneTokenPair ==
    /\ [](/\ ConfiguredAsConstructed
          /\ \A i \in 1..Len(sent) :
                /\ TokenPairs(sent[i]) = 1
                /\ Lookup(sent[i].query, "token") = Some(api_key))
    /\ [][api_key' = api_key /\ base_url' = base_url]_vars

\* C13 amended: every request carries the credential as its first query pair,
\* followed by the operation's own pairs unchanged; it is the only `token`
\* pair unless the pairs handed to search hold a `token` key themselves
\* (build() never renders one); api_key and base_url never change; base_url
\* is the default when none was supplied.
C13_CredentialIsFirstPair ==
    /\ [](/\ ConfiguredAsConstructed
          /\ \A q \in SearchQueries \ {<< <<"token", "other">> >>} :
                Count(q, "token") = 0
          /\ \A i \in 1..Len(sent) :
                /\ Len(sent[i].query) >= 1
                /\ sent[i].query[1] = <<"token", api_key>>
                /\ op = "search" =>
                    SubSeq(sent[i].query, 2, Len(sent[i].query)) = CallerPairs
                /\ TokenPairs(sent[i]) = 1 + Count(CallerPairs, "token"))
    /\ [][api_key' = api_key /\ base_url' = base_url]_vars

\* a search with four rendered pairs, sent by a client built with its own
\* key and base URL
C13_Witness ==
    /\ op = "search" /\ pc = "done"
    /\ api_key = "key2" /\ base_url = "https://custom.api.url"
    /\ Len(sent) = 1 /\ Len(sent[1].query) = 5
    /\ sent[1].query[1] = <<"token", "key2">>
    /\ TokenPairs(sent[1]) = 1

\* C14: AuthError comes only from test_api_key and only on status 401;
\* search and get_sound never return it, and a 401 response to them (status
\* and body received) is reported as ApiError, as for any other non-success
\* status.
C14_AuthErrorOnlyFromProbe ==
    /\ Kind = "AuthError" => op = "test_api_key" /\ status = Some(401)
    /\ op \in {"search", "get_sound"} => Kind # "AuthError"
    /\ op \in {"search", "get_sound"} /\ pc = "done"
            /\ status # None /\ ~is_success(status[1]) /\ body # None
        => Kind = "ApiError"

\* search answered with 401 and a body
C14_Witness ==
    /\ op = "search" /\ pc = "done"
    /\ status = Some(401) /\ body # None
    /\ Kind = "ApiError"

====
